---- MODULE Spec2Model ----
(***************************************************************************)
(* Duplicate-detection pipeline of the API service (services/api/app):     *)
(*   - services/tie_breaker.py      select_keep_file                       *)
(*   - api/dedupe.py                _find_duplicate_groups                 *)
(*   - services/session_manager.py  SessionManager / UploadSession         *)
(*   - services/background_worker.py BackgroundWorker                      *)
(*   - api/sessions.py              upload / status / delete endpoints     *)
(*                                                                         *)
(* and the embedding caches and the vector search:                         *)
(*   - services/embedding_cache.py  EmbeddingCacheService (API service)    *)
(*   - ml-service/app/services/embedding_cache.py  EmbeddingCache          *)
(*   - ml-service/app/api/embeddings.py  embed_text, batch_embed_text      *)
(*   - services/vector_search.py    VectorSearchService                    *)
(*   - middleware/rate_limit.py     RateLimiter                            *)
(*                                                                         *)
(* The specifications of the module:                                       *)
(*   SpecTie    select_keep_file applied to a drawn list of file records   *)
(*   SpecGroup  an endpoint builds its file records from a drawn batch and *)
(*              runs _find_duplicate_groups on them                        *)
(*   Spec       the upload-session state machine and the background worker *)
(*   SpecLive   Spec with a worker task that keeps being scheduled         *)
(*   SpecRestart  Spec with restarts of the API process                    *)
(*   SpecCache  get_or_generate_text_embeddings and its caching tasks      *)
(*   SpecMl     the ML service's EmbeddingCache and embed_text             *)
(*   SpecMlBatch  concurrent batch_embed_text requests on that cache       *)
(*   SpecSearch search_similar_texts over a store of embeddings            *)
(*   SpecRate   is_allowed calls of several clients as time passes         *)
(***************************************************************************)
EXTENDS Integers, Sequences, FiniteSets, TLC

VARIABLES
    \* ---- SpecTie
    tfiles,      \* the list handed to select_keep_file
    tkeep,       \* <<>> before the call, <<record>> after it
    \* ---- SpecGroup
    endpoint,    \* which caller builds the records
    batch,       \* the uploaded items, in arrival order
    gfiles,      \* the file records built from the batch
    groups,      \* the list returned by _find_duplicate_groups
    gpc,         \* "input" -> "processed" -> "done"
    \* ---- Spec
    sessions,    \* SessionManager.sessions: session id -> UploadSession
    created,     \* session ids handed out so far (uuid4 never repeats)
    disk,        \* per session id: temp directory and results.json
    queue,       \* BackgroundWorker.processing_queue
    pending,     \* queue_session background tasks not yet run
    upl,         \* the upload request being served, or its idle record
    wk,          \* locals of the worker's process_queue / process_session
    aged,        \* session ids older than the sweep's max_age_hours
    deleted,     \* session ids a DELETE answered "Session deleted successfully" for
    \* ---- SpecCache
    acache,      \* _embedding_cache['text'] of the API service: sha256 -> vector
    atasks,      \* _cache_text_embedding tasks created and not yet run
    acall,       \* the last get_or_generate_text_embeddings call and its outcome
    \* ---- SpecMl
    mcache,      \* EmbeddingCache.cache, in insertion order
    mstats,      \* EmbeddingCache.hits / misses / evictions
    mcall,       \* the last operation on the ML cache and its outcome
    mflight,     \* per client, its /batch/text request waiting for the generator
    \* ---- SpecSearch
    store,       \* rows of file_embeddings joined with files
    sres,        \* the answer of the last search on the present store
    \* ---- SpecRate
    clock,       \* time.time(), in whole seconds
    requests,    \* RateLimiter.requests: key -> times of the requests let through
    last_cleanup,\* RateLimiter.last_cleanup
    rcall,       \* the last is_allowed call and its answer
    let_through  \* per key, the times is_allowed answered True (the last MaxWindow seconds)

tieVars   == <<tfiles, tkeep>>
groupVars == <<endpoint, batch, gfiles, groups, gpc>>
sessVars  == <<sessions, created, disk, queue, pending, upl, wk, aged, deleted>>
cacheVars == <<acache, atasks, acall>>
mlVars    == <<mcache, mstats, mcall, mflight>>
searchVars == <<store, sres>>
rateVars  == <<clock, requests, last_cleanup, rcall, let_through>>
auxVars   == <<cacheVars, mlVars, searchVars, rateVars>>
vars      == <<tieVars, groupVars, sessVars, auxVars>>

-----------------------------------------------------------------------------
(* Bounds of the model *)

MaxTieFiles == 3
MaxBatch == 3
MaxSessions == 2
MaxFiles == 2

-----------------------------------------------------------------------------
(* File records.  A record is the dict the endpoints pass around; a key the *)
(* dict does not carry is modelled by the value dict.get() gives for it.    *)

\* dict.get('fileName') / dict.get('name') of a record without that key:
\* None, which is falsy and equal to itself, as "" is here.
NoName == ""

\* 'modifiedTime' / 'mtime' absent from the record.
NoTime == -1

\* 'resolution' / metadata['original_size'] absent: the empty tuple; a
\* resolution is <<width, height>>.
NoRes == <<>>

\* 'sizeBytes' or 'size' absent.
NoSize == -1

\* File names in lexicographic (Python str) order.
NameOrder == <<"a.txt", "b.txt", "c.pdf">>

Names == {NameOrder[i] : i \in 1..Len(NameOrder)}

NameRank(n) == IF n = NoName THEN 0 ELSE CHOOSE i \in 1..Len(NameOrder) : NameOrder[i] = n

\* Python's str comparison on the names of the model ('' sorts first).
StrLess(a, b) == NameRank(a) < NameRank(b)

-----------------------------------------------------------------------------
(* services/tie_breaker.py *)

\* has_hash = bool(file.get('sha256') or file.get('file_hash'));
\* every endpoint sets the two keys to the same value.
HashPriority(file) == IF file.sha256 # "" THEN 0 ELSE 1

\* resolution = width * height, 0 without one.
Resolution(file) ==
    IF file.resolution = NoRes THEN 0 ELSE file.resolution[1] * file.resolution[2]

\* modified_time: the timestamp, 0 without one.
ModifiedTime(file) == IF file.modifiedTime = NoTime THEN 0 ELSE file.modifiedTime

\* Python's `a or b` on two sizes: a unless it is falsy (absent or 0).
SizeOr(a, b) == IF a # NoSize /\ a # 0 THEN a ELSE IF b = NoSize THEN 0 ELSE b

\* size_bytes = file.get('sizeBytes') or file.get('size', 0)
SizeBytes(file) == SizeOr(file.sizeBytes, file.size)

\* filename = file.get('fileName') or file.get('name', '')
FileNameOf(file) == IF file.fileName # NoName THEN file.fileName ELSE file.name

\* (the same key without its size component)
SortKeyNoSize(file) ==
    <<HashPriority(file), -Resolution(file), -ModifiedTime(file), 0,
      FileNameOf(file)>>

\* sort_key: the tuple sorted() compares.
SortKey(file) ==
    <<HashPriority(file), -Resolution(file), -ModifiedTime(file),
      -SizeBytes(file), FileNameOf(file)>>

\* Python's tuple comparison k1 < k2 on sort keys: lexicographic.
KeyLess(k1, k2) ==
    \/ k1[1] < k2[1]
    \/ k1[1] = k2[1] /\ k1[2] < k2[2]
    \/ k1[1] = k2[1] /\ k1[2] = k2[2] /\ k1[3] < k2[3]
    \/ k1[1] = k2[1] /\ k1[2] = k2[2] /\ k1[3] = k2[3] /\ k1[4] < k2[4]
    \/ k1[1] = k2[1] /\ k1[2] = k2[2] /\ k1[3] = k2[3] /\ k1[4] = k2[4]
       /\ StrLess(k1[5], k2[5])

\* sorted(files, key=sort_key)[0]: sorted() is stable, so the first element
\* is the earliest list entry whose key no other entry's key is below.
SortedFirstIndex(files) ==
    CHOOSE i \in 1..Len(files) :
        /\ \A j \in 1..Len(files) : ~KeyLess(SortKey(files[j]), SortKey(files[i]))
        /\ \A j \in 1..(i - 1) : SortKey(files[j]) # SortKey(files[i])

\* select_keep_file(files) for a non-empty list (the empty list raises).
select_keep_file(files) ==
    IF Len(files) = 1 THEN files[1] ELSE files[SortedFirstIndex(files)]

-----------------------------------------------------------------------------
(* SpecTie: select_keep_file on a drawn list *)

\* The records select_keep_file is drawn on: every key its sort_key reads
\* varies; ids follow the position in the list, as the endpoints give them.
TieShapes ==
    [fileName : {"a.txt", "b.txt"}, sha256 : {"", "X"},
     resolution : {NoRes, <<2, 3>>}, modifiedTime : {NoTime, 5},
     sizeBytes : {10, 20}]

TieRecord(i, sh) ==
    [id |-> "file_" \o ToString(i - 1), fileName |-> sh.fileName,
     name |-> sh.fileName, sha256 |-> sh.sha256, success |-> TRUE,
     text_content |-> "", resolution |-> sh.resolution,
     modifiedTime |-> sh.modifiedTime, sizeBytes |-> sh.sizeBytes,
     size |-> sh.sizeBytes]

GroupIdle ==
    /\ endpoint = "none" /\ batch = <<>> /\ gfiles = <<>> /\ groups = <<>>
    /\ gpc = "idle"

TieInput ==
    /\ \E n \in 1..MaxTieFiles : \E shs \in [1..n -> TieShapes] :
          tfiles = [i \in 1..n |-> TieRecord(i, shs[i])]
    /\ tkeep = <<>>

\* One call of select_keep_file(tfiles).
SelectKeep ==
    /\ tkeep = <<>>
    /\ tkeep' = <<select_keep_file(tfiles)>>
    /\ UNCHANGED <<tfiles, groupVars, sessVars, auxVars>>

NextTie == SelectKeep

\* The same list in another order.
Reordered(files, p) == [i \in 1..Len(files) |-> files[p[i]]]

Orders(files) == Permutations(1..Len(files))

\* C3: select_keep_file returns the same logical file (same id) for every
\* ordering of the same non-empty list of candidates.
C3_KeepOrderIndependent ==
    tkeep # <<>> =>
        \A p \in Orders(tfiles) :
            select_keep_file(Reordered(tfiles, p)).id = tkeep[1].id

\* The priority order as the claim states it: g is strictly better than f.
ClaimHasHash(f) == f.sha256 # ""
ClaimPixels(f) == IF f.resolution = NoRes THEN 0 ELSE f.resolution[1] * f.resolution[2]
ClaimTime(f) == f.modifiedTime   \* absent (-1) is below every timestamp
ClaimBetter(g, f) ==
    \/ ClaimHasHash(g) /\ ~ClaimHasHash(f)
    \/ /\ ClaimHasHash(g) = ClaimHasHash(f)
       /\ \/ ClaimPixels(g) > ClaimPixels(f)
          \/ /\ ClaimPixels(g) = ClaimPixels(f)
             /\ \/ ClaimTime(g) > ClaimTime(f)
                \/ /\ ClaimTime(g) = ClaimTime(f)
                   /\ \/ g.sizeBytes > f.sizeBytes
                      \/ /\ g.sizeBytes = f.sizeBytes
                         /\ StrLess(g.fileName, f.fileName)

-----------------------------------------------------------------------------
(* api/dedupe.py: _find_duplicate_groups *)

RECURSIVE Distinct(_)
\* The keys of a dict filled in list order: each value once, in the order of
\* its first occurrence.
Distinct(s) ==
    IF s = <<>> THEN <<>>
    ELSE LET front == Distinct(SubSeq(s, 1, Len(s) - 1))
             last  == s[Len(s)]
         IN  IF \E i \in 1..Len(front) : front[i] = last THEN front
             ELSE Append(front, last)

RECURSIVE SumSeq(_)
SumSeq(s) == IF s = <<>> THEN 0 ELSE s[1] + SumSeq(Tail(s))

\* file.get('sha256') or file.get('file_hash', '')
FileHash(file) == file.sha256

\* processed_files = [f for f in files if f.get('success', False)]
SuccessfulFiles(files) == SelectSeq(files, LAMBDA f : f.success)

\* hash_groups: the lists of successful files per non-empty hash, in the
\* order the dict was filled.
HashGroups(files) ==
    LET processed == SuccessfulFiles(files)
        hashed    == SelectSeq(processed, LAMBDA f : FileHash(f) # "")
        keys      == Distinct([i \in 1..Len(hashed) |-> FileHash(hashed[i])])
    IN  [k \in 1..Len(keys) |->
            SelectSeq(processed, LAMBDA f : FileHash(f) = keys[k])]

\* text_content_groups: built only when more than one successful file
\* carries text; the lists per text, in the order the dict was filled.
TextGroups(files) ==
    LET processed  == SuccessfulFiles(files)
        text_files == SelectSeq(processed, LAMBDA f : f.text_content # "")
        keys       == Distinct([i \in 1..Len(text_files) |-> text_files[i].text_content])
    IN  IF Len(text_files) > 1
        THEN [k \in 1..Len(keys) |->
                 SelectSeq(text_files, LAMBDA f : f.text_content = keys[k])]
        ELSE <<>>

\* The duplicates of one group: every member that differs from the kept
\* file in id AND in fileName.
DuplicatesOf(members, kept_file, reason) ==
    LET others == SelectSeq(members,
                            LAMBDA f : f.id # kept_file.id /\ f.fileName # kept_file.fileName)
    IN  [i \in 1..Len(others) |->
            [file |-> others[i], similarity |-> 1, reason |-> reason, isKept |-> FALSE]]

\* d['file'].get('size', 0) or d['file'].get('sizeBytes', 0)
SavedSize(file) == SizeOr(file.size, file.sizeBytes)

\* One appended group dict.
MakeGroup(members, group_index, reason) ==
    LET kept_file  == select_keep_file(members)
        duplicates == DuplicatesOf(members, kept_file, reason)
    IN  [id |-> "group_" \o ToString(group_index), groupIndex |-> group_index,
         keepFile |-> kept_file, duplicates |-> duplicates, reason |-> reason,
         totalSizeSaved |->
             SumSeq([i \in 1..Len(duplicates) |-> SavedSize(duplicates[i].file)])]

\* _find_duplicate_groups(files, [], []): the exact-hash stage, then the
\* exact-text stage over all successful files with text; group_index runs on.
find_duplicate_groups(files) ==
    LET hash_lists == SelectSeq(HashGroups(files), LAMBDA g : Len(g) > 1)
        text_lists == SelectSeq(TextGroups(files), LAMBDA g : Len(g) > 1)
        nh         == Len(hash_lists)
    IN  [i \in 1..(nh + Len(text_lists)) |->
            IF i <= nh
            THEN MakeGroup(hash_lists[i], i - 1, "Exact hash match")
            ELSE MakeGroup(text_lists[i - nh], i - 1, "Exact text content match")]

-----------------------------------------------------------------------------
(* SpecGroup: an endpoint turns uploaded items into file records and runs   *)
(* _find_duplicate_groups on them                                           *)

\* File contents (bytes).  "Xws" is "X" followed by white space: other
\* bytes, the same cleaned text.
Contents == {"X", "Xws", "Y"}

\* hashlib.sha256(data).hexdigest(): a digest, never the bytes themselves;
\* different bytes, different digests.
calculate_sha256(content) == "sha256:" \o content

\* len(data) / st_size
ContentSize(content) ==
    CASE content = "X" -> 10 [] content = "Xws" -> 11 [] content = "Y" -> 20

\* _clean_text(data.decode()) for a text file, the extracted text for a PDF.
clean_text(content) == IF content = "Xws" THEN "X" ELSE content

\* ml_client.generate_text_embeddings: the vector of a text (two
\* dimensions are enough to tell near from far): "X" and "Y" are different
\* texts whose vectors point almost the same way.
text_embedding(text) ==
    CASE text = "X" -> <<10, 0>> [] text = "Y" -> <<10, 1>> [] OTHER -> <<0, 10>>

\* all_texts / text_embeddings of preview_duplicates: one vector per
\* successfully processed file with text, in list order.
text_embeddings(files) ==
    LET with_text == SelectSeq(files, LAMBDA f : f.success /\ f.text_content # "")
    IN  [i \in 1..Len(with_text) |-> text_embedding(with_text[i].text_content)]

\* settings.MEDIUM_SIMILARITY_THRESHOLD = 0.85, in hundredths
MEDIUM_SIMILARITY_THRESHOLD == 85

\* get_mime_type: by extension.
get_mime_type(name) == IF name = "c.pdf" THEN "application/pdf" ELSE "text/plain"

\* An uploaded item; ok = FALSE is a PDF that PyPDF2 cannot read (a text
\* file always decodes).
Items ==
    {it \in [name : Names, content : Contents, ok : BOOLEAN] :
        get_mime_type(it.name) = "text/plain" => it.ok}

\* FileProcessor.process_file: never raises; the keys of its result that
\* the grouping reads.
process_file(it) ==
    [success |-> it.ok, file_hash |-> calculate_sha256(it.content),
     text_content |-> IF it.ok THEN clean_text(it.content) ELSE ""]

\* BackgroundWorker.process_single_file: the record of a file of the
\* session directory.
SessionRecord(it) ==
    LET result == process_file(it)
    IN  [id |-> "file_" \o it.name, fileName |-> it.name, name |-> it.name,
         sizeBytes |-> ContentSize(it.content), size |-> ContentSize(it.content),
         success |-> result.success, sha256 |-> result.file_hash,
         text_content |-> result.text_content,
         resolution |-> NoRes, modifiedTime |-> NoTime]

\* _process_real_file (POST /dedupe/preview): the record of request file
\* number index.
PreviewRecord(it, index) ==
    LET result == process_file(it)
    IN  [id |-> "file_" \o ToString(index), fileName |-> it.name, name |-> it.name,
         sizeBytes |-> ContentSize(it.content), size |-> ContentSize(it.content),
         success |-> result.success, sha256 |-> result.file_hash,
         text_content |-> result.text_content,
         resolution |-> NoRes, modifiedTime |-> NoTime]

\* upload_and_process_files (POST /files/upload): id is the file hash, the
\* record has 'name' and 'size' but no 'fileName' and no 'sizeBytes', and
\* size = metadata.get('size', 0) is 0 (no processor sets metadata['size']).
UploadRecord(it) ==
    LET result == process_file(it)
    IN  [id |-> result.file_hash, fileName |-> NoName, name |-> it.name,
         sizeBytes |-> NoSize, size |-> 0,
         success |-> result.success, sha256 |-> result.file_hash,
         text_content |-> result.text_content,
         resolution |-> NoRes, modifiedTime |-> NoTime]

Endpoints == {"session", "preview", "upload"}

RecordOf(ep, it, index) ==
    CASE ep = "session" -> SessionRecord(it)
      [] ep = "preview" -> PreviewRecord(it, index)
      [] ep = "upload"  -> UploadRecord(it)

\* The files of a session directory have distinct names.
DistinctNames(b) == \A i, j \in 1..Len(b) : b[i].name = b[j].name => i = j

TieIdle == tfiles = <<>> /\ tkeep = <<>>

GroupInput ==
    /\ endpoint \in Endpoints
    /\ \E n \in 1..MaxBatch : batch \in [1..n -> Items]
    /\ endpoint = "session" => DistinctNames(batch)
    /\ gfiles = <<>>
    /\ groups = <<>>
    /\ gpc = "input"

\* The endpoint's per-file loop: one record per item, in list order.
BuildRecords ==
    /\ gpc = "input"
    /\ gfiles' = [i \in 1..Len(batch) |-> RecordOf(endpoint, batch[i], i - 1)]
    /\ gpc' = "processed"
    /\ UNCHANGED <<endpoint, batch, groups, tieVars, sessVars, auxVars>>

\* groups = await _find_duplicate_groups(processed_files, [], [])
FindGroups ==
    /\ gpc = "processed"
    /\ groups' = find_duplicate_groups(gfiles)
    /\ gpc' = "done"
    /\ UNCHANGED <<endpoint, batch, gfiles, tieVars, sessVars, auxVars>>

NextGroup == BuildRecords \/ FindGroups

\* The file records a group holds: keepFile first, then its duplicates.
GroupSlots(g) == <<g.keepFile>> \o [i \in 1..Len(g.duplicates) |-> g.duplicates[i].file]

SlotCount(g, file) == Cardinality({i \in 1..Len(GroupSlots(g)) : GroupSlots(g)[i] = file})

\* C1: no file appears in more than one returned group, counting keepFile
\* and duplicates entries alike.
C1_NoFileInTwoGroups ==
    gpc = "done" =>
        \A i \in 1..Len(gfiles) :
            Cardinality({k \in 1..Len(groups) : SlotCount(groups[k], gfiles[i]) > 0}) <= 1

\* C2: two distinct successful records with the same non-empty sha256 are
\* members of one group (keepFile and duplicate, or both duplicates), whose
\* duplicates all carry similarity 1.0.
C2_SameHashSameGroup ==
    gpc = "done" =>
        \A i, j \in 1..Len(gfiles) :
            ( /\ i < j
              /\ gfiles[i].success /\ gfiles[j].success
              /\ gfiles[i].sha256 # "" /\ gfiles[i].sha256 = gfiles[j].sha256 )
            => \E k \in 1..Len(groups) :
                  /\ SlotCount(groups[k], gfiles[i]) > 0
                  /\ SlotCount(groups[k], gfiles[j]) > 0
                  /\ gfiles[i] = gfiles[j] => SlotCount(groups[k], gfiles[i]) > 1
                  /\ \A d \in 1..Len(groups[k].duplicates) :
                        groups[k].duplicates[d].similarity = 1

\* What the claim compares of a result: per group its keepFile and its
\* membership.
GroupView(gs) ==
    {[keepFile |-> gs[k].keepFile,
      members  |-> {GroupSlots(gs[k])[i] : i \in 1..Len(GroupSlots(gs[k]))}]
     : k \in 1..Len(gs)}

\* C5: the same records in any other input order give the same set of
\* groups: the same membership and the same keepFile for every group.
C5_GroupsOrderIndependent ==
    gpc = "done" =>
        \A p \in Orders(gfiles) :
            GroupView(find_duplicate_groups(Reordered(gfiles, p))) = GroupView(groups)

\* The number of bytes of the file a record was made from.
BytesOf(file) == ContentSize(CHOOSE c \in Contents : calculate_sha256(c) = file.sha256)

\* Exactly one pair of items of the batch shares its content.
OnePairSharesContent(b) ==
    Cardinality({pr \in (1..Len(b)) \X (1..Len(b)) :
                    pr[1] < pr[2] /\ b[pr[1]].content = b[pr[2]].content}) = 1

\* C6: Scenario A (a.txt and b.txt with the same 10 bytes, a third file of
\* 20 other bytes, all processed successfully) gives exactly one group with
\* keepFile a.txt, duplicates [b.txt] and totalSizeSaved 10; and any batch of
\* successfully processed files in which exactly one pair shares its content
\* gives exactly one group, whose totalSizeSaved is the sum of the sizes of
\* its duplicates.
C6_ScenarioA ==
    gpc = "done" =>
        /\ ( /\ Len(batch) = 3
             /\ batch[1] = [name |-> "a.txt", content |-> "X", ok |-> TRUE]
             /\ batch[2] = [name |-> "b.txt", content |-> "X", ok |-> TRUE]
             /\ batch[3].content = "Y" /\ batch[3].ok )
           => /\ Len(groups) = 1
              /\ groups[1].keepFile = gfiles[1]
              /\ Len(groups[1].duplicates) = 1
              /\ groups[1].duplicates[1].file = gfiles[2]
              /\ groups[1].totalSizeSaved = 10
        /\ ( (\A i \in 1..Len(batch) : batch[i].ok) /\ OnePairSharesContent(batch) )
           => /\ Len(groups) = 1
              /\ groups[1].totalSizeSaved =
                    SumSeq([d \in 1..Len(groups[1].duplicates) |->
                               BytesOf(groups[1].duplicates[d].file)])

-----------------------------------------------------------------------------
(* services/session_manager.py *)

SessionIds == 1..MaxSessions

\* error_message = None
NoError == ""

\* UploadSession.__init__
NewSession ==
    [status |-> "uploading", progress |-> 0, total_files |-> 0,
     processed_files |-> 0, failed_files |-> 0, duplicate_groups |-> "none",
     processing_stats |-> <<>>, error_message |-> NoError]

\* A session id without temp directory.
NoDir == [dir |-> FALSE, nfiles |-> 0, results |-> <<>>]

\* for key, value in kwargs.items(): setattr(session, key, value)
SetAttrs(session, kwargs) ==
    [key \in DOMAIN session |->
        IF key \in DOMAIN kwargs THEN kwargs[key] ELSE session[key]]

\* save_session_state: json.dump(session.to_dict()) into results.json of the
\* session's temp directory; a failing open() is caught and logged.
SavedDisk(d, session) == IF d.dir THEN [d EXCEPT !.results = <<session>>] ELSE d

\* (an unknown id gets a new session record with the attributes set)
update_or_create(ss, dk, session_id, kwargs) ==
    LET session == SetAttrs(IF session_id \in DOMAIN ss THEN ss[session_id] ELSE NewSession,
                            kwargs)
    IN  <<[x \in DOMAIN ss \cup {session_id} |->
              IF x = session_id THEN session ELSE ss[x]],
          [dk EXCEPT ![session_id] = SavedDisk(dk[session_id], session)]>>

\* update_session_progress(session_id, **kwargs): nothing for an unknown id,
\* else set the attributes and save.  Gives <<sessions', disk'>>.
update_session_progress(ss, dk, session_id, kwargs) ==
    IF session_id \notin DOMAIN ss THEN <<ss, dk>>
    ELSE LET session == SetAttrs(ss[session_id], kwargs)
         IN  <<[ss EXCEPT ![session_id] = session],
               [dk EXCEPT ![session_id] = SavedDisk(dk[session_id], session)]>>

\* cleanup_session(session_id): rmtree of the temp directory when the
\* session is in memory and the directory exists; then del sessions[id].
cleanup_session(ss, dk, session_id) ==
    <<[x \in DOMAIN ss \ {session_id} |-> ss[x]],
      IF session_id \in DOMAIN ss /\ dk[session_id].dir
      THEN [dk EXCEPT ![session_id] = NoDir] ELSE dk>>

\* What GET /sessions/{id} answers: the in-memory session, else the one
\* load_session_state reads from results.json, else 404.
SessionView(ss, dk, session_id) ==
    IF session_id \in DOMAIN ss THEN <<ss[session_id]>>
    ELSE dk[session_id].results

StatusOf(ss, dk, session_id) ==
    IF SessionView(ss, dk, session_id) = <<>> THEN "not_found"
    ELSE SessionView(ss, dk, session_id)[1].status

-----------------------------------------------------------------------------
(* api/sessions.py *)

UplIdle == [pc |-> "idle", sid |-> 0, left |-> 0, uploaded_count |-> 0]

\* POST /upload, first part: create_session (fresh uuid4, new UploadSession,
\* mkdir of its temp directory) for a request of n files.
CreateSession(n) ==
    /\ upl.pc = "idle"
    /\ created # SessionIds
    /\ LET sid == CHOOSE x \in SessionIds \ created :
                      \A y \in SessionIds \ created : x <= y
       IN  /\ sessions' = [x \in DOMAIN sessions \cup {sid} |->
                              IF x = sid THEN NewSession ELSE sessions[x]]
           /\ created' = created \cup {sid}
           /\ disk' = [disk EXCEPT ![sid] = [dir |-> TRUE, nfiles |-> 0, results |-> <<>>]]
           /\ upl' = [pc |-> "saving", sid |-> sid, left |-> n, uploaded_count |-> 0]
    /\ UNCHANGED <<queue, pending, wk, aged, deleted, tieVars, groupVars, auxVars>>

\* One round of the save loop: the file is written under a new name, or
\* over a file of the same name saved before, or the write raises (logged,
\* the loop continues).  An upload named results.json is written where
\* save_session_state writes: it counts as uploaded, the next save replaces
\* it, and get_uploaded_files never lists it.
SaveFile(how) ==
    /\ upl.pc = "saving"
    /\ upl.left > 0
    /\ LET d == disk[upl.sid]
       IN  CASE how = "new" /\ d.dir ->
                   /\ disk' = [disk EXCEPT ![upl.sid].nfiles = d.nfiles + 1]
                   /\ upl' = [upl EXCEPT !.left = upl.left - 1,
                                         !.uploaded_count = upl.uploaded_count + 1]
             [] how \in {"same_name", "results_json"} /\ d.dir
                   /\ (how = "same_name" => d.nfiles > 0) ->
                   /\ disk' = disk
                   /\ upl' = [upl EXCEPT !.left = upl.left - 1,
                                         !.uploaded_count = upl.uploaded_count + 1]
             [] OTHER ->
                   /\ disk' = disk
                   /\ upl' = [upl EXCEPT !.left = upl.left - 1]
    /\ UNCHANGED <<sessions, created, queue, pending, wk, aged, deleted, tieVars, groupVars, auxVars>>

\* POST /upload, last part: no file saved -> cleanup_session and 400; else
\* update_session_progress(total_files=uploaded_count, status="uploaded")
\* and the queue_session background task is added.
FinishUpload ==
    /\ upl.pc = "saving"
    /\ upl.left = 0
    /\ IF upl.uploaded_count = 0
       THEN /\ sessions' = cleanup_session(sessions, disk, upl.sid)[1]
            /\ disk' = cleanup_session(sessions, disk, upl.sid)[2]
            /\ pending' = pending
       ELSE LET kwargs == [total_files |-> upl.uploaded_count, status |-> "uploaded"]
                upd    == update_session_progress(sessions, disk, upl.sid, kwargs)
            IN  /\ sessions' = upd[1]
                /\ disk' = upd[2]
                /\ pending' = pending \cup {upl.sid}
    /\ upl' = UplIdle
    /\ UNCHANGED <<created, queue, wk, aged, deleted, tieVars, groupVars, auxVars>>

\* GET /sessions/{id}: a session not in memory is loaded from results.json
\* and put into the session map; the stored state is not changed.
GetSessionStatus(session_id) ==
    /\ sessions' =
          IF session_id \notin DOMAIN sessions /\ disk[session_id].results # <<>>
          THEN [x \in DOMAIN sessions \cup {session_id} |->
                   IF x = session_id THEN disk[session_id].results[1] ELSE sessions[x]]
          ELSE sessions
    /\ UNCHANGED <<created, disk, queue, pending, upl, wk, aged, deleted, tieVars, groupVars, auxVars>>

\* DELETE /sessions/{id}: 404 when the session is neither in memory nor
\* read by load_session_state (which does not put it into the session map),
\* else cleanup_session and the answer "Session deleted successfully".
DeleteSession(session_id) ==
    /\ SessionView(sessions, disk, session_id) # <<>>
    /\ sessions' = cleanup_session(sessions, disk, session_id)[1]
    /\ disk' = cleanup_session(sessions, disk, session_id)[2]
    /\ deleted' = deleted \cup {session_id}
    /\ UNCHANGED <<created, queue, pending, upl, wk, aged, tieVars, groupVars, auxVars>>

-----------------------------------------------------------------------------
(* services/background_worker.py *)

\* ignored: an update_session_progress call of this run found no session
\* under the id and returned at once.
WkIdle ==
    [pc |-> "idle", sid |-> 0, n |-> 0, i |-> 0, failed_count |-> 0,
     processed_files |-> <<>>, grouped |-> FALSE, ignored |-> FALSE]

\* The locals after an update_session_progress(wk.sid, ...) call.
Called(w) == [w EXCEPT !.ignored = @ \/ w.sid \notin DOMAIN sessions]

\* What can happen to one listed file in process_single_file:
\*   "ok"         read and normalized, record with success = True
\*   "invalid"    read; process_file answers success = False (it never raises)
\*   "unreadable" open() raises, the file is still there (stat() works)
\*   "missing"    the file is gone: open() raises, and so does stat()
FileOutcomes == {"ok", "invalid", "unreadable", "missing"}

\* (the task stays pending after it has run, so it can run again)
QueueSessionAgain(session_id) ==
    /\ session_id \in pending
    /\ Len(queue) < MaxSessions
    /\ queue' = Append(queue, session_id)
    /\ UNCHANGED <<sessions, created, disk, pending, upl, wk, aged, deleted, tieVars, groupVars, auxVars>>

\* The background task added by POST /upload: queue_session(session_id).
QueueSession(session_id) ==
    /\ session_id \in pending
    /\ pending' = pending \ {session_id}
    /\ queue' = Append(queue, session_id)
    /\ UNCHANGED <<sessions, created, disk, upl, wk, aged, deleted, tieVars, groupVars, auxVars>>

\* (get() returns the session id queued last)
DequeueNewest ==
    /\ wk.pc = "idle"
    /\ queue # <<>>
    /\ wk' = [WkIdle EXCEPT !.pc = "start", !.sid = queue[Len(queue)]]
    /\ queue' = SubSeq(queue, 1, Len(queue) - 1)
    /\ UNCHANGED <<sessions, created, disk, pending, upl, aged, deleted, tieVars, groupVars, auxVars>>

\* process_queue: processing_queue.get() returns the oldest session id and
\* process_session(session_id) is entered.
Dequeue ==
    /\ wk.pc = "idle"
    /\ queue # <<>>
    /\ wk' = [WkIdle EXCEPT !.pc = "start", !.sid = queue[1]]
    /\ queue' = Tail(queue)
    /\ UNCHANGED <<sessions, created, disk, pending, upl, aged, deleted, tieVars, groupVars, auxVars>>

\* (progress counted from the files still to do)
ProgressOfRemaining(i, total_files) == ((total_files - i) * 100) \div total_files

\* progress = int((i / session.total_files) * 100); for the totals of the
\* model the float product is exact enough for int() to give the floor.
ProgressOf(i, total_files) == (i * 100) \div total_files

\* (the status is set, the message is not)
FailSessionNoMessage ==
    LET upd == update_session_progress(sessions, disk, wk.sid, [status |-> "failed"])
    IN  /\ sessions' = upd[1]
        /\ disk' = upd[2]
        /\ wk' = Called([wk EXCEPT !.pc = "returned"])

\* except Exception as e: update_session_progress(status="failed",
\* error_message=str(e)), and process_session returns.
FailSession ==
    LET upd == update_session_progress(sessions, disk, wk.sid,
                   [status |-> "failed", error_message |-> "exception"])
    IN  /\ sessions' = upd[1]
        /\ disk' = upd[2]
        /\ wk' = Called([wk EXCEPT !.pc = "returned"])

\* process_session, lines 67-79: unknown session -> return; else
\* update_session_progress(status="processing", progress=0).
StartSession ==
    /\ wk.pc = "start"
    /\ IF wk.sid \notin DOMAIN sessions
       THEN /\ wk' = [wk EXCEPT !.pc = "returned"]
            /\ UNCHANGED <<sessions, disk>>
       ELSE LET upd == update_session_progress(sessions, disk, wk.sid,
                           [status |-> "processing", progress |-> 0])
            IN  /\ sessions' = upd[1]
                /\ disk' = upd[2]
                /\ wk' = [wk EXCEPT !.pc = "list"]
    /\ UNCHANGED <<created, queue, pending, upl, aged, deleted, tieVars, groupVars, auxVars>>

\* lines 81-91: get_uploaded_files (iterdir raises when the directory is
\* gone), session.total_files = len(uploaded_files) on the session object
\* (not saved), and the failure of a session without files.
ListFiles ==
    /\ wk.pc = "list"
    /\ IF ~disk[wk.sid].dir
       THEN FailSession
       ELSE LET n  == disk[wk.sid].nfiles
                ss == IF wk.sid \in DOMAIN sessions
                      THEN [sessions EXCEPT ![wk.sid].total_files = n]
                      ELSE sessions
            IN  IF n = 0
                THEN LET upd == update_session_progress(ss, disk, wk.sid,
                                    [status |-> "failed",
                                     error_message |-> "No files found to process"])
                     IN  /\ sessions' = upd[1]
                         /\ disk' = upd[2]
                         /\ wk' = Called([wk EXCEPT !.pc = "returned", !.n = 0])
                ELSE /\ sessions' = ss
                     /\ disk' = disk
                     /\ wk' = [wk EXCEPT !.pc = "progress", !.n = n, !.i = 0]
    /\ UNCHANGED <<created, queue, pending, upl, aged, deleted, tieVars, groupVars, auxVars>>

\* lines 99-105: update_session_progress(progress=int(i/total*100),
\* processed_files=i) at the head of round i of the file loop.
ReportProgress ==
    /\ wk.pc = "progress"
    /\ LET upd == update_session_progress(sessions, disk, wk.sid,
                      [progress |-> ProgressOf(wk.i, wk.n), processed_files |-> wk.i])
       IN  /\ sessions' = upd[1]
           /\ disk' = upd[2]
    /\ wk' = Called([wk EXCEPT !.pc = "file"])
    /\ UNCHANGED <<created, queue, pending, upl, aged, deleted, tieVars, groupVars, auxVars>>

\* After round i: the next round, or the grouping when the list is done.
NextRound(w) == [w EXCEPT !.i = w.i + 1, !.pc = IF w.i + 1 < w.n THEN "progress" ELSE "finish"]

\* lines 107-128: process_single_file and the per-file except clause.  The
\* clause builds its placeholder record with file_path.stat(), which raises
\* for a file that is gone; that exception leaves the loop and reaches the
\* outer except clause.
ProcessFile(outcome) ==
    /\ wk.pc = "file"
    /\ outcome \in FileOutcomes
    /\ ~disk[wk.sid].dir => outcome = "missing"
    /\ CASE outcome \in {"ok", "invalid"} ->
               /\ wk' = NextRound([wk EXCEPT !.processed_files = Append(@, outcome)])
               /\ UNCHANGED <<sessions, disk>>
         [] outcome = "unreadable" ->
               /\ wk' = NextRound([wk EXCEPT !.processed_files = Append(@, outcome),
                                             !.failed_count = @ + 1])
               /\ UNCHANGED <<sessions, disk>>
         [] outcome = "missing" ->
               FailSession
    /\ UNCHANGED <<created, queue, pending, upl, aged, deleted, tieVars, groupVars, auxVars>>

\* lines 130-155: _find_duplicate_groups over the collected records, the
\* statistics, and the final update_session_progress.
FinishSession ==
    /\ wk.pc = "finish"
    /\ LET successful_files == Len(wk.processed_files) - wk.failed_count
           upd == update_session_progress(sessions, disk, wk.sid,
                      [status |-> "completed", progress |-> 100,
                       processed_files |-> successful_files,
                       failed_files |-> wk.failed_count,
                       duplicate_groups |-> "groups",
                       processing_stats |-> <<successful_files, wk.failed_count>>])
       IN  /\ sessions' = upd[1]
           /\ disk' = upd[2]
    /\ wk' = Called([wk EXCEPT !.pc = "returned", !.grouped = TRUE])
    /\ UNCHANGED <<created, queue, pending, upl, aged, deleted, tieVars, groupVars, auxVars>>

\* (process_queue does not loop back to get())
LoopEnds ==
    /\ wk.pc = "returned"
    /\ UNCHANGED vars

\* process_session has returned; process_queue loops to the next get().
Return ==
    /\ wk.pc = "returned"
    /\ wk' = WkIdle
    /\ UNCHANGED <<sessions, created, disk, queue, pending, upl, aged, deleted, tieVars, groupVars, auxVars>>

\* Time passes: a session becomes older than max_age_hours.
GrowOld(session_id) ==
    /\ session_id \in created \ aged
    /\ aged' = aged \cup {session_id}
    /\ UNCHANGED <<sessions, created, disk, queue, pending, upl, wk, deleted, tieVars, groupVars, auxVars>>

RECURSIVE CleanupAll(_, _, _)
\* for session_id in sessions_to_remove: cleanup_session(session_id)
CleanupAll(ss, dk, ids) ==
    IF ids = {} THEN <<ss, dk>>
    ELSE LET x == CHOOSE y \in ids : TRUE
             c == cleanup_session(ss, dk, x)
         IN  CleanupAll(c[1], c[2], ids \ {x})

\* cleanup_old_sessions (hourly): every in-memory session created before
\* the cutoff is cleaned up.
Sweep ==
    /\ DOMAIN sessions \cap aged # {}
    /\ LET c == CleanupAll(sessions, disk, DOMAIN sessions \cap aged)
       IN  /\ sessions' = c[1]
           /\ disk' = c[2]
    /\ UNCHANGED <<created, queue, pending, upl, wk, aged, deleted, tieVars, groupVars, auxVars>>

-----------------------------------------------------------------------------
(* services/embedding_cache.py (API service): EmbeddingCacheService.  The   *)
(* text and the image functions are the same code over their own dict; the  *)
(* text ones are modelled.  The database tier is the configuration without  *)
(* database: its lookups raise, are caught, and the in-memory dict decides. *)

MaxItems == 3
MaxTasks == 5

\* One item of a call: texts[i] and sha256_hashes[i].
CacheItems ==
    {[text |-> "t1", sha256 |-> "h1"], [text |-> "t2", sha256 |-> "h2"],
     [text |-> "t3", sha256 |-> "h3"]}

Hashes == {it.sha256 : it \in CacheItems}

\* Scenario B: five items with the hashes h1, h1, h2, h3, h3.
ScenarioB ==
    <<[text |-> "t1", sha256 |-> "h1"], [text |-> "t1", sha256 |-> "h1"],
      [text |-> "t2", sha256 |-> "h2"], [text |-> "t3", sha256 |-> "h3"],
      [text |-> "t3", sha256 |-> "h3"]>>

\* None
NoVec == ""

\* The vector the embedding model computes for a text.
generate(text) == "emb(" \o text \o ")"

\* No call made yet.  Of a call: its items, what it returned or that it
\* raised, whether and with which texts ml_client was invoked, the caching
\* tasks it created, and the cache as the call found it.
NoCall ==
    [items |-> <<>>, embeddings |-> <<>>, cache_hits |-> <<>>, invoked |-> FALSE,
     texts_to_generate |-> <<>>, raised |-> FALSE, tasks_created |-> <<>>,
     before |-> <<>>]

\* _get_cached_text_embedding(sha256): the in-memory entry, else None.
get_cached_text_embedding(cache, sha256) == cache[sha256]

\* The first loop: indices of the items without a (truthy) cached vector,
\* in index order.
indices_to_generate(cache, items) ==
    SelectSeq([i \in 1..Len(items) |-> i],
              LAMBDA i : get_cached_text_embedding(cache, items[i].sha256) = NoVec)

\* (each new vector is written at its rank among the generated ones)
FillAtRank(cached, indices, new_embeddings) ==
    [i \in 1..Len(cached) |->
        IF i <= Len(new_embeddings) THEN new_embeddings[i] ELSE cached[i]]

\* The second loop: embeddings[indices_to_generate[idx]] = new_emb.
FillPlaceholders(cached, indices, new_embeddings) ==
    [i \in 1..Len(cached) |->
        IF \E idx \in 1..Len(indices) : indices[idx] = i
        THEN new_embeddings[CHOOSE idx \in 1..Len(indices) : indices[idx] = i]
        ELSE cached[i]]

\* (the vectors are stored before the generator has answered)
TasksBeforeGenerate(items, indices, gen_ok) ==
    [idx \in 1..Len(indices) |->
        <<items[indices[idx]].sha256, generate(items[indices[idx]].text)>>]

\* asyncio.create_task(self._cache_text_embedding(sha256, new_emb)) for
\* every generated vector; none when ml_client raised.
CacheTasks(items, indices, gen_ok) ==
    IF gen_ok
    THEN [idx \in 1..Len(indices) |->
            <<items[indices[idx]].sha256, generate(items[indices[idx]].text)>>]
    ELSE <<>>

\* get_or_generate_text_embeddings(texts, sha256_hashes); gen_ok = FALSE is
\* ml_client.generate_text_embeddings raising.
GetOrGenerate(items, gen_ok) ==
    /\ Len(atasks) + Len(items) <= MaxTasks
    /\ LET cached  == [i \in 1..Len(items) |->
                          get_cached_text_embedding(acache, items[i].sha256)]
           indices == indices_to_generate(acache, items)
           texts   == [idx \in 1..Len(indices) |-> items[indices[idx]].text]
           new_embeddings == [idx \in 1..Len(texts) |-> generate(texts[idx])]
           raised  == texts # <<>> /\ ~gen_ok
       IN  /\ acall' = [items |-> items,
                        embeddings |-> IF raised THEN <<>>
                                       ELSE FillPlaceholders(cached, indices, new_embeddings),
                        cache_hits |-> IF raised THEN <<>>
                                       ELSE [i \in 1..Len(items) |-> cached[i] # NoVec],
                        invoked |-> texts # <<>>,
                        texts_to_generate |-> texts,
                        raised |-> raised,
                        tasks_created |-> CacheTasks(items, indices, gen_ok),
                        before |-> acache]
           /\ atasks' = IF texts = <<>> THEN atasks
                        ELSE atasks \o CacheTasks(items, indices, gen_ok)
    /\ UNCHANGED <<acache, mlVars, searchVars, rateVars, tieVars, groupVars, sessVars>>

\* One _cache_text_embedding(sha256, embedding) task runs:
\* _embedding_cache['text'][sha256] = embedding.
CacheTextEmbedding ==
    /\ atasks # <<>>
    /\ acache' = [acache EXCEPT ![atasks[1][1]] = atasks[1][2]]
    /\ atasks' = Tail(atasks)
    /\ UNCHANGED <<acall, mlVars, searchVars, rateVars, tieVars, groupVars, sessVars>>

CacheIdle ==
    /\ acache = [h \in Hashes |-> NoVec]
    /\ atasks = <<>>
    /\ acall = NoCall

NextCache ==
    \/ \E n \in 1..MaxItems : \E items \in [1..n -> CacheItems] \cup {ScenarioB} :
          \E gen_ok \in BOOLEAN : GetOrGenerate(items, gen_ok)
    \/ CacheTextEmbedding

-----------------------------------------------------------------------------
(* ml-service/app/services/embedding_cache.py: EmbeddingCache, and          *)
(* ml-service/app/api/embeddings.py: embed_text (embed_image is the same    *)
(* code over the image generator)                                           *)

\* EmbeddingCache.max_size (settings.EMBEDDING_CACHE_SIZE), scaled down.
max_size == 2
MaxMlBatch == 2
MaxCount == 3

MlContents == {"t1", "t2", "t3"}

\* Vectors handed to put(): the generator's, or another one.
MlVectors == {generate(c) : c \in MlContents} \cup {"other"}

\* hashlib.sha256(content.encode('utf-8')).hexdigest()
compute_hash(content) == "sha256(" \o content \o ")"

\* content_hash in self.cache
InCache(cache, content_hash) == \E k \in 1..Len(cache) : cache[k].key = content_hash

\* self.cache[content_hash][0]
CacheEntry(cache, content_hash) ==
    cache[CHOOSE k \in 1..Len(cache) : cache[k].key = content_hash].embedding

\* get(content): <<embedding or None, stats>>.
get(cache, stats, content) ==
    IF InCache(cache, compute_hash(content))
    THEN <<CacheEntry(cache, compute_hash(content)), [stats EXCEPT !.hits = @ + 1]>>
    ELSE <<NoVec, [stats EXCEPT !.misses = @ + 1]>>

\* put(content, embedding): <<cache, stats>>.  An entry already cached is
\* left as it is; at capacity next(iter(self.cache)), the entry inserted
\* first, is deleted.
put(cache, stats, content, embedding) ==
    LET content_hash == compute_hash(content)
    IN  IF InCache(cache, content_hash) THEN <<cache, stats>>
        ELSE IF Len(cache) >= max_size
        THEN <<Append(Tail(cache), [key |-> content_hash, embedding |-> embedding]),
               [stats EXCEPT !.evictions = @ + 1]>>
        ELSE <<Append(cache, [key |-> content_hash, embedding |-> embedding]), stats>>

RECURSIVE get_batch(_, _, _)
\* get_batch(contents): <<embeddings (None where uncached), stats>>.
get_batch(cache, stats, contents) ==
    IF contents = <<>> THEN <<<<>>, stats>>
    ELSE LET g    == get(cache, stats, contents[1])
             rest == get_batch(cache, g[2], Tail(contents))
         IN  <<<<g[1]>> \o rest[1], rest[2]>>

RECURSIVE put_batch(_, _, _, _)
\* put_batch(contents, embeddings): put() for every pair, in order.
put_batch(cache, stats, contents, embeddings) ==
    IF contents = <<>> THEN <<cache, stats>>
    ELSE LET p == put(cache, stats, contents[1], embeddings[1])
         IN  put_batch(p[1], p[2], Tail(contents), Tail(embeddings))

\* No operation made yet.
NoMlCall ==
    [op |-> "none", contents |-> <<>>, embedding |-> NoVec, embeddings |-> <<>>,
     generated |-> <<>>, raised |-> FALSE]

\* Room left below the cap of the counters for an operation on n contents.
CountersBelow(n) ==
    /\ mstats.hits + n <= MaxCount
    /\ mstats.misses + n <= MaxCount
    /\ mstats.evictions + n <= MaxCount

\* cache.get(content)
MlGet(content) ==
    /\ CountersBelow(1)
    /\ LET g == get(mcache, mstats, content)
       IN  /\ mstats' = g[2]
           /\ mcall' = [NoMlCall EXCEPT !.op = "get", !.contents = <<content>>,
                                        !.embedding = g[1]]
    /\ UNCHANGED <<mcache, mflight, cacheVars, searchVars, rateVars, tieVars, groupVars, sessVars>>

\* cache.put(content, embedding)
MlPut(content, embedding) ==
    /\ CountersBelow(1)
    /\ LET p == put(mcache, mstats, content, embedding)
       IN  /\ mcache' = p[1]
           /\ mstats' = p[2]
    /\ mcall' = [NoMlCall EXCEPT !.op = "put", !.contents = <<content>>,
                                 !.embedding = embedding]
    /\ UNCHANGED <<mflight, cacheVars, searchVars, rateVars, tieVars, groupVars, sessVars>>

\* POST /embeddings/text: get_batch, the generator on the uncached texts
\* (gen_ok = FALSE: it raises, the handler answers 500), put_batch, and the
\* answer rebuilt in request order.
embed_text(texts, gen_ok) ==
    /\ CountersBelow(Len(texts))
    /\ LET gb == get_batch(mcache, mstats, texts)
           cached_embeddings == gb[1]
           uncached_indices  == SelectSeq([i \in 1..Len(texts) |-> i],
                                          LAMBDA i : cached_embeddings[i] = NoVec)
           embeddings_to_generate ==
               [k \in 1..Len(uncached_indices) |-> texts[uncached_indices[k]]]
           new_embeddings ==
               [k \in 1..Len(embeddings_to_generate) |-> generate(embeddings_to_generate[k])]
           raised == embeddings_to_generate # <<>> /\ ~gen_ok
           pb == IF raised THEN <<mcache, gb[2]>>
                 ELSE put_batch(mcache, gb[2], embeddings_to_generate, new_embeddings)
           final_embeddings ==
               [i \in 1..Len(texts) |->
                   IF cached_embeddings[i] # NoVec THEN cached_embeddings[i]
                   ELSE new_embeddings[Cardinality({j \in 1..i : cached_embeddings[j] = NoVec})]]
       IN  /\ mcache' = pb[1]
           /\ mstats' = pb[2]
           /\ mcall' = [NoMlCall EXCEPT !.op = "embed_text", !.contents = texts,
                                        !.embeddings = IF raised THEN <<>> ELSE final_embeddings,
                                        !.generated = embeddings_to_generate,
                                        !.raised = raised]
    /\ UNCHANGED <<mflight, cacheVars, searchVars, rateVars, tieVars, groupVars, sessVars>>

\* POST /embeddings/cache/clear: cache.clear()
MlClear ==
    /\ mcache' = <<>>
    /\ mcall' = [NoMlCall EXCEPT !.op = "clear"]
    /\ UNCHANGED <<mstats, mflight, cacheVars, searchVars, rateVars, tieVars, groupVars, sessVars>>

\* POST /embeddings/cache/reset-stats: cache.reset_stats()
MlResetStats ==
    /\ mstats' = [hits |-> 0, misses |-> 0, evictions |-> 0]
    /\ mcall' = [NoMlCall EXCEPT !.op = "reset_stats"]
    /\ UNCHANGED <<mcache, mflight, cacheVars, searchVars, rateVars, tieVars, groupVars, sessVars>>

\* The clients of the ML service that may have a request under way.
BatchClients == {"c1", "c2"}

\* No request of the client is waiting for the generator.
NoFlight == [open |-> FALSE, texts |-> <<>>, cached |-> <<>>, to_generate |-> <<>>]

\* What process_text_batch can give: the vectors of the model, the vectors
\* as another chunking and padding rounds them, or an exception.
BatchOutcomes == {"model", "other", "raise"}

\* POST /embeddings/batch/text with use_cache, up to its await: get_batch
\* and the list of texts to generate.  With nothing to generate the handler
\* answers without giving up control.
BatchLookup(client, texts) ==
    /\ ~mflight[client].open
    /\ CountersBelow(Len(texts))
    /\ LET gb == get_batch(mcache, mstats, texts)
           cached_embeddings == gb[1]
           uncached_indices  == SelectSeq([i \in 1..Len(texts) |-> i],
                                          LAMBDA i : cached_embeddings[i] = NoVec)
           texts_to_generate ==
               [k \in 1..Len(uncached_indices) |-> texts[uncached_indices[k]]]
       IN  /\ mstats' = gb[2]
           /\ IF texts_to_generate = <<>>
              THEN /\ mflight' = mflight
                   /\ mcall' = [NoMlCall EXCEPT !.op = "batch_embed_text",
                                                !.contents = texts,
                                                !.embeddings = cached_embeddings]
              ELSE /\ mflight' = [mflight EXCEPT ![client] =
                                     [open |-> TRUE, texts |-> texts,
                                      cached |-> cached_embeddings,
                                      to_generate |-> texts_to_generate]]
                   /\ mcall' = mcall
    /\ UNCHANGED <<mcache, cacheVars, searchVars, rateVars, tieVars, groupVars, sessVars>>

\* The rest of the handler once process_text_batch is back: put_batch of
\* the new vectors and the answer rebuilt in request order; an exception is
\* answered with 500.
BatchStore(client, outcome) ==
    /\ mflight[client].open
    /\ CountersBelow(Len(mflight[client].to_generate))
    /\ LET f == mflight[client]
           new_embeddings ==
               [k \in 1..Len(f.to_generate) |->
                   IF outcome = "model" THEN generate(f.to_generate[k]) ELSE "other"]
           pb == IF outcome = "raise" THEN <<mcache, mstats>>
                 ELSE put_batch(mcache, mstats, f.to_generate, new_embeddings)
           final_embeddings ==
               [i \in 1..Len(f.texts) |->
                   IF f.cached[i] # NoVec THEN f.cached[i]
                   ELSE new_embeddings[Cardinality({j \in 1..i : f.cached[j] = NoVec})]]
       IN  /\ mcache' = pb[1]
           /\ mstats' = pb[2]
           /\ mcall' = [NoMlCall EXCEPT !.op = "batch_embed_text", !.contents = f.texts,
                                        !.embeddings = IF outcome = "raise" THEN <<>>
                                                       ELSE final_embeddings,
                                        !.generated = f.to_generate,
                                        !.raised = (outcome = "raise")]
    /\ mflight' = [mflight EXCEPT ![client] = NoFlight]
    /\ UNCHANGED <<cacheVars, searchVars, rateVars, tieVars, groupVars, sessVars>>

MlIdle ==
    /\ mcache = <<>>
    /\ mstats = [hits |-> 0, misses |-> 0, evictions |-> 0]
    /\ mcall = NoMlCall
    /\ mflight = [c \in BatchClients |-> NoFlight]

\* Batch requests of two clients, and the cache cleared in between.
NextMlBatch ==
    \/ \E client \in BatchClients : \E n \in 1..MaxMlBatch :
          \E texts \in [1..n -> MlContents] : BatchLookup(client, texts)
    \/ \E client \in BatchClients : \E outcome \in BatchOutcomes :
          BatchStore(client, outcome)
    \/ MlClear

NextMl ==
    \/ \E c \in MlContents : MlGet(c)
    \/ \E c \in MlContents : \E v \in MlVectors : MlPut(c, v)
    \/ \E n \in 1..MaxMlBatch : \E texts \in [1..n -> MlContents] :
          \E gen_ok \in BOOLEAN : embed_text(texts, gen_ok)
    \/ MlClear
    \/ MlResetStats

-----------------------------------------------------------------------------
(* services/vector_search.py: VectorSearchService.search_similar_texts      *)
(* (search_similar_images is the same code over the image column)           *)

\* VectorSearchService.vector_search_limit (default 500), scaled down.
vector_search_limit == 2
MaxLimit == 4
MaxOffset == 1

FileIdOrder == <<"f1", "f2", "f3">>

FileIds == {FileIdOrder[i] : i \in 1..Len(FileIdOrder)}

\* exclude_file_id = None
NoId == ""

\* The order of file ids (string comparison).
IdRank(id) == CHOOSE i \in 1..Len(FileIdOrder) : FileIdOrder[i] = id

\* The number 1 of "1 - (embedding <-> query)" in the model's unit of
\* distance: distances are counted in halves.
One == 2

\* Embeddings: points on a line, half a unit apart.
Embeddings == 0..One

\* fe."embedding" <-> $1::vector: the L2 distance
Distance(embedding, query) ==
    IF embedding >= query THEN embedding - query ELSE query - embedding

\* The WHERE clause: a text row with an embedding, similarity above the
\* threshold, and not the excluded file.
Matching(rows, query, distance_threshold, exclude_file_id) ==
    {id \in DOMAIN rows :
        /\ One - Distance(rows[id], query) > distance_threshold
        /\ exclude_file_id # NoId => id # exclude_file_id}

\* ORDER BY fe."embedding" <-> $1::vector: every order of the matching rows
\* with ascending distance; rows at the same distance come in any order.
OrderedByDistance(rows, query, ids) ==
    {o \in [1..Cardinality(ids) -> ids] :
        /\ \A i, j \in 1..Cardinality(ids) : i # j => o[i] # o[j]
        /\ \A i, j \in 1..Cardinality(ids) :
              i < j => Distance(rows[o[i]], query) <= Distance(rows[o[j]], query)}

\* LIMIT $3 OFFSET $4
LimitOffset(ordered, limit, offset) ==
    SubSeq(ordered, offset + 1,
           IF offset + limit <= Len(ordered) THEN offset + limit ELSE Len(ordered))

\* (the requested limit is passed on as it is)
Unclamped(limit) == limit

\* limit = min(limit, self.vector_search_limit)
ClampLimit(limit) == IF limit <= vector_search_limit THEN limit ELSE vector_search_limit

\* No search made yet.
NoSearch ==
    [embedding |-> 0, distance_threshold |-> 0, requested |-> 0, exclude_file_id |-> NoId,
     made |-> FALSE, raised |-> FALSE, results |-> <<>>, count |-> 0, limit |-> 0,
     offset |-> 0, has_more |-> FALSE]

\* search_similar_texts(embedding, distance_threshold, limit, offset,
\* exclude_file_id).  PostgreSQL rejects a negative LIMIT, the exception is
\* logged and raised again.
search_similar_texts(embedding, distance_threshold, requested, offset, exclude_file_id) ==
    LET limit == ClampLimit(requested)
        ids   == Matching(store, embedding, distance_threshold, exclude_file_id)
    IN  /\ \E ordered \in OrderedByDistance(store, embedding, ids) :
              sres' = IF limit < 0
                      THEN [NoSearch EXCEPT !.embedding = embedding,
                                            !.distance_threshold = distance_threshold,
                                            !.requested = requested,
                                            !.exclude_file_id = exclude_file_id,
                                            !.made = TRUE, !.raised = TRUE,
                                            !.limit = limit, !.offset = offset]
                      ELSE LET results == LimitOffset(ordered, limit, offset)
                           IN  [embedding |-> embedding,
                                distance_threshold |-> distance_threshold,
                                requested |-> requested,
                                exclude_file_id |-> exclude_file_id,
                                made |-> TRUE, raised |-> FALSE,
                                results |-> results, count |-> Len(results),
                                limit |-> limit, offset |-> offset,
                                has_more |-> Len(results) >= limit]
        /\ UNCHANGED <<store, cacheVars, mlVars, rateVars, tieVars, groupVars, sessVars>>

\* A text embedding is stored for a file (a row of file_embeddings).
StoreEmbedding(id, embedding) ==
    /\ store' = [x \in DOMAIN store \cup {id} |-> IF x = id THEN embedding ELSE store[x]]
    /\ sres' = NoSearch
    /\ UNCHANGED <<cacheVars, mlVars, rateVars, tieVars, groupVars, sessVars>>

SearchIdle ==
    /\ store = <<>>
    /\ sres = NoSearch

NextSearch ==
    \/ \E id \in FileIds : \E e \in Embeddings : StoreEmbedding(id, e)
    \/ \E q \in Embeddings : \E thr \in {0, 1} : \E requested \in -1..MaxLimit :
          \E offset \in 0..MaxOffset : \E ex \in {NoId, "f1"} :
             search_similar_texts(q, thr, requested, offset, ex)

-----------------------------------------------------------------------------
(* middleware/rate_limit.py: RateLimiter *)

MaxNow == 4
MaxRequests == 2
MaxWindow == 2

\* self.cleanup_interval = 60, scaled down
cleanup_interval == 2

\* user ids / client addresses
RateKeys == {"key1", "key2"}

\* [req_time for req_time in times if req_time > window_start]
Recent(times, now, window_seconds) ==
    SelectSeq(times, LAMBDA req_time : req_time > now - window_seconds)

\* self.requests[key] of the defaultdict: the empty list for a new key
RequestsOf(reqs, key) == IF key \in DOMAIN reqs THEN reqs[key] ELSE <<>>

\* RateLimiter._cleanup(now, window_seconds): every key's list is cut to
\* the window of the call that triggered it, emptied keys are deleted.
cleanup(reqs, now, window_seconds) ==
    LET pruned == [k \in DOMAIN reqs |-> Recent(reqs[k], now, window_seconds)]
    IN  [k \in {x \in DOMAIN reqs : pruned[x] # <<>>} |-> pruned[k]]

\* RateLimiter.is_allowed(key, max_requests, window_seconds) at time now:
\* the dict and last_cleanup it leaves, and its answer.
is_allowed(reqs, last, now, key, max_requests, window_seconds) ==
    LET due    == now - last > cleanup_interval
        swept  == IF due THEN cleanup(reqs, now, window_seconds) ELSE reqs
        recent_requests == Recent(RequestsOf(swept, key), now, window_seconds)
        ok     == Len(recent_requests) < max_requests
    IN  [requests |-> [k \in DOMAIN swept \cup {key} |->
                          IF k = key
                          THEN IF ok THEN Append(recent_requests, now) ELSE recent_requests
                          ELSE swept[k]],
         last_cleanup |-> IF due THEN now ELSE last,
         result |-> ok]

NoRateCall ==
    [made |-> FALSE, key |-> "", max_requests |-> 0, window_seconds |-> 0,
     now |-> 0, before |-> <<>>, result |-> FALSE]

\* A request of client key comes in under the limits (max_requests,
\* window_seconds).
IsAllowed(key, max_requests, window_seconds) ==
    LET r == is_allowed(requests, last_cleanup, clock, key, max_requests, window_seconds)
    IN  /\ requests' = r.requests
        /\ last_cleanup' = r.last_cleanup
        /\ rcall' = [made |-> TRUE, key |-> key, max_requests |-> max_requests,
                     window_seconds |-> window_seconds, now |-> clock,
                     before |-> let_through[key], result |-> r.result]
        /\ let_through' = IF r.result
                          THEN [let_through EXCEPT ![key] = Append(@, clock)]
                          ELSE let_through
        /\ UNCHANGED <<clock, cacheVars, mlVars, searchVars, tieVars, groupVars, sessVars>>

\* A second passes.  Times no window reaches any more leave the record of
\* what was let through.
Tick ==
    /\ clock < MaxNow
    /\ clock' = clock + 1
    /\ let_through' = [k \in RateKeys |-> Recent(let_through[k], clock + 1, MaxWindow)]
    /\ UNCHANGED <<requests, last_cleanup, rcall,
                   cacheVars, mlVars, searchVars, tieVars, groupVars, sessVars>>

\* RateLimiter(): no requests seen, last_cleanup = time.time()
RateIdle ==
    /\ clock = 0
    /\ requests = <<>>
    /\ last_cleanup = 0
    /\ rcall = NoRateCall
    /\ let_through = [k \in RateKeys |-> <<>>]

NextRate ==
    \/ Tick
    \/ \E key \in RateKeys : \E max_requests \in 1..MaxRequests :
          \E window_seconds \in 1..MaxWindow :
             IsAllowed(key, max_requests, window_seconds)

-----------------------------------------------------------------------------
\* Nothing cached, nothing stored, no call made.
AuxIdle == CacheIdle /\ MlIdle /\ SearchIdle /\ RateIdle

-----------------------------------------------------------------------------
(* Spec: the session state machine *)

SessInit ==
    /\ sessions = <<>>
    /\ created = {}
    /\ disk = [s \in SessionIds |-> NoDir]
    /\ queue = <<>>
    /\ pending = {}
    /\ upl = UplIdle
    /\ wk = WkIdle
    /\ aged = {}
    /\ deleted = {}

Init == SessInit /\ TieIdle /\ GroupIdle /\ AuxIdle

Next ==
    \/ \E n \in 1..MaxFiles : CreateSession(n)
    \/ \E how \in {"new", "same_name", "results_json", "fail"} : SaveFile(how)
    \/ FinishUpload
    \/ \E s \in SessionIds : QueueSession(s)
    \/ \E s \in SessionIds : GetSessionStatus(s)
    \/ \E s \in SessionIds : DeleteSession(s)
    \/ \E s \in SessionIds : GrowOld(s)
    \/ Sweep
    \/ Dequeue
    \/ StartSession
    \/ ListFiles
    \/ ReportProgress
    \/ \E o \in FileOutcomes : ProcessFile(o)
    \/ FinishSession
    \/ Return

Spec == Init /\ [][Next]_vars

\* One step of the worker task: process_queue's get() and the statements of
\* process_session.  At most one of them is possible at a time.
WorkerStep ==
    \/ Dequeue
    \/ StartSession
    \/ ListFiles
    \/ ReportProgress
    \/ \E o \in FileOutcomes : ProcessFile(o)
    \/ FinishSession
    \/ Return

\* The session state machine while the worker is running: the event loop
\* keeps scheduling the worker task, none of whose awaits waits for anything
\* outside the process.
SpecLive == Spec /\ WF_vars(WorkerStep)

\* The API process stops and starts again: SessionManager() and
\* BackgroundWorker() are built anew (empty session map, empty queue, no
\* request or run in progress); the temp directories stay as they are.
Restart ==
    /\ sessions' = <<>>
    /\ queue' = <<>>
    /\ pending' = {}
    /\ upl' = UplIdle
    /\ wk' = WkIdle
    /\ UNCHANGED <<created, disk, aged, deleted, tieVars, groupVars, auxVars>>

NextRestart == Next \/ Restart

\* The session state machine with process restarts.
SpecRestart == Init /\ [][NextRestart]_vars

InitTie == TieInput /\ GroupIdle /\ SessInit /\ AuxIdle

SpecTie == InitTie /\ [][NextTie]_vars

InitGroup == GroupInput /\ TieIdle /\ SessInit /\ AuxIdle

SpecGroup == InitGroup /\ [][NextGroup]_vars

\* get_or_generate_text_embeddings on an empty cache.
SpecCache == Init /\ [][NextCache]_vars

\* The ML service's cache, empty at start.
SpecMl == Init /\ [][NextMl]_vars

\* Concurrent batch requests on the ML service's cache.
SpecMlBatch == Init /\ [][NextMlBatch]_vars

\* Searches over a store that fills up.
SpecSearch == Init /\ [][NextSearch]_vars

\* Requests of several clients reach one RateLimiter as time passes.
SpecRate == Init /\ [][NextRate]_vars

-----------------------------------------------------------------------------
(* Claims about the session state machine *)

\* The steps of the chain uploading -> uploaded -> processing ->
\* (completed | failed).
ForwardSteps ==
    {<<"uploading", "uploaded">>, <<"uploaded", "processing">>,
     <<"processing", "completed">>, <<"processing", "failed">>}

\* C7: the status a session shows only moves forward along uploading ->
\* uploaded -> processing -> (completed | failed): every change of it is a
\* step of that chain, the creation of a fresh session, or its deletion; so
\* processing is entered only from uploaded, and completed and failed are
\* left only by deletion.
C7_StatusMovesForward ==
    [][\A s \in SessionIds :
          LET a == StatusOf(sessions, disk, s)
              b == StatusOf(sessions', disk', s)
          IN  \/ a = b
              \/ <<a, b>> \in ForwardSteps
              \/ a = "not_found" /\ b = "uploading" /\ s \notin created
              \/ a # "not_found" /\ b = "not_found"]_vars

\* One session has gone through the chain to completed and another one to
\* failed.
C7_Witness ==
    \E s, t \in DOMAIN sessions :
        sessions[s].status = "completed" /\ sessions[t].status = "failed"

\* The progress a status read of session s answers (0 for an unknown one).
ProgressSeen(ss, dk, s) ==
    IF SessionView(ss, dk, s) = <<>> THEN 0 ELSE SessionView(ss, dk, s)[1].progress

\* C8: every progress value is in 0..100, and no step of the worker's run on
\* a session lowers the progress that session shows.
C8_ProgressNonDecreasing ==
    /\ [](\A s \in SessionIds : ProgressSeen(sessions, disk, s) \in 0..100)
    /\ [][\A s \in DOMAIN sessions \cap DOMAIN sessions' :
             (wk.sid = s /\ wk.pc \in {"start", "list", "progress", "file", "finish"})
             => ProgressSeen(sessions', disk', s) >= ProgressSeen(sessions, disk, s)]_vars

\* A run that has written a progress strictly between 0 and 100 and is at
\* its last file.
C8_Witness ==
    /\ wk.pc = "finish"
    /\ wk.sid \in DOMAIN sessions
    /\ sessions[wk.sid].progress > 0
    /\ sessions[wk.sid].progress < 100

\* C9: a run on a session with at least one listed file, whatever happens
\* to its files, handles every file, runs the grouping and ends with status
\* completed.
C9_FileFailureNeverAborts ==
    (wk.pc = "returned" /\ wk.n >= 1 /\ wk.sid \in DOMAIN sessions)
    => /\ sessions[wk.sid].status = "completed"
       /\ wk.grouped
       /\ Len(wk.processed_files) = wk.n

\* The records of the run so far with the given outcomes.
CountOutcomes(outcomes) ==
    Cardinality({k \in 1..Len(wk.processed_files) : wk.processed_files[k] \in outcomes})

\* C10: during and after a run, failed_files of the session is the number
\* of files handled so far that failed (an exception, or a record with
\* success = False); at completion processed_files is the number of records
\* with success = True.
C10_FailedFilesCountsFailures ==
    (wk.pc \in {"progress", "file", "finish", "returned"} /\ wk.n >= 1
        /\ wk.sid \in DOMAIN sessions)
    => /\ sessions[wk.sid].failed_files = CountOutcomes({"invalid", "unreadable"})
       /\ sessions[wk.sid].status = "completed"
          => sessions[wk.sid].processed_files = CountOutcomes({"ok"})

\* C11: a run that ends outside the per-file handler (an exception that
\* reaches the outer except clause, or a session without files) leaves the
\* session with status failed and an error_message, saved in results.json,
\* with the progress, processed_files and failed_files it had; and a session
\* that shows status failed always shows an error_message.
C11_FailedHasErrorMessage ==
    /\ [](\A s \in SessionIds :
            LET v == SessionView(sessions, disk, s)
            IN  (v # <<>> /\ v[1].status = "failed") => v[1].error_message # NoError)
    /\ []((wk.pc = "returned" /\ ~wk.grouped /\ wk.sid \in DOMAIN sessions)
            => /\ sessions[wk.sid].status = "failed"
               /\ sessions[wk.sid].error_message # NoError
               /\ disk[wk.sid].results = <<sessions[wk.sid]>>)
    /\ [][(wk.pc \in {"list", "file"} /\ wk'.pc = "returned"
             /\ wk.sid \in DOMAIN sessions /\ wk.sid \in DOMAIN sessions')
          => /\ sessions'[wk.sid].progress = sessions[wk.sid].progress
             /\ sessions'[wk.sid].processed_files = sessions[wk.sid].processed_files
             /\ sessions'[wk.sid].failed_files = sessions[wk.sid].failed_files]_vars

\* One session failed for having no files and another one on an exception.
C11_Witness ==
    \E s, t \in DOMAIN sessions :
        /\ sessions[s].status = "failed"
        /\ sessions[s].error_message = "No files found to process"
        /\ sessions[t].status = "failed"
        /\ sessions[t].error_message = "exception"

\* C12: between operations, results.json of every session in memory holds
\* exactly the in-memory state of that session (so that load_session_state
\* recovers it after a crash).
C12_DurableEqualsMemory ==
    \A s \in DOMAIN sessions : disk[s].results = <<sessions[s]>>

\* C13: a session a DELETE answered success for is in neither the session
\* map nor on disk (no temp directory, no results.json) and reads as not
\* found; and a sweep leaves no session older than the TTL, whether or not
\* the session was in memory.
C13_DeletedIsGone ==
    /\ [](\A s \in deleted :
            /\ s \notin DOMAIN sessions
            /\ disk[s] = NoDir
            /\ StatusOf(sessions, disk, s) = "not_found")
    /\ [][Sweep => \A s \in aged : StatusOf(sessions', disk', s) = "not_found"]_vars

-----------------------------------------------------------------------------
(* Claims about the embedding caches *)

\* C14: in one get-or-generate call the generator is invoked with exactly
\* one content per distinct uncached hash: no two of the texts handed to it
\* belong to the same hash, and for the five items of Scenario B on an empty
\* cache it gets three texts.
C14_GeneratorGetsDistinctHashes ==
    acall.invoked =>
        /\ \A j, k \in 1..Len(acall.texts_to_generate) :
              acall.texts_to_generate[j] = acall.texts_to_generate[k] => j = k
        /\ (acall.items = ScenarioB /\ \A h \in Hashes : acall.before[h] = NoVec)
           => Len(acall.texts_to_generate) = 3

\* C15: a get-or-generate call that returns gives one vector per item, none
\* missing; the vector at position i is the one cached for item i's hash
\* when the call found it cached, else the generator's vector for item i's
\* text; and cache_hits[i] says which of the two.
C15_VectorsAtTheirPositions ==
    (acall.items # <<>> /\ ~acall.raised) =>
        /\ Len(acall.embeddings) = Len(acall.items)
        /\ Len(acall.cache_hits) = Len(acall.items)
        /\ \A i \in 1..Len(acall.items) :
              LET cached == acall.before[acall.items[i].sha256]
              IN  /\ acall.embeddings[i] # NoVec
                  /\ acall.cache_hits[i] = (cached # NoVec)
                  /\ acall.embeddings[i] =
                        IF cached # NoVec THEN cached ELSE generate(acall.items[i].text)

\* A call that found its first item cached and generated for two later ones.
C15_Witness ==
    /\ Len(acall.items) = 3
    /\ ~acall.raised
    /\ acall.cache_hits = <<TRUE, FALSE, FALSE>>
    /\ acall.items[2] # acall.items[3]

C16_PutThenGet ==
    mcall.op = "put" =>
        /\ InCache(mcache, compute_hash(mcall.contents[1]))
        /\ get(mcache, mstats, mcall.contents[1])[1] = mcall.embedding

\* The ML service's cache never holds more than max_size entries, and a put
\* of a new key at capacity removes exactly the entry inserted first and
\* adds one to the eviction counter.
MlCacheBounded ==
    /\ [](Len(mcache) <= max_size)
    /\ [][(mcall'.op = "put" /\ mcall' # mcall /\ Len(mcache) = max_size
             /\ ~InCache(mcache, compute_hash(mcall'.contents[1])))
          => /\ mcache' = Append(Tail(mcache),
                                 [key |-> compute_hash(mcall'.contents[1]),
                                  embedding |-> mcall'.embedding])
             /\ mstats'.evictions = mstats.evictions + 1]_vars

\* The number of entries of the API service's in-memory cache.
ApiCacheSize == Cardinality({h \in Hashes : acache[h] # NoVec})

\* C18: each embedding cache stays within its capacity (the API service's
\* dict has no capacity setting of its own: it is held to max_size), and
\* the store of a new key at capacity evicts exactly the oldest entry and
\* counts the eviction.
C18_CachesBounded ==
    /\ MlCacheBounded
    /\ [](ApiCacheSize <= max_size)

-----------------------------------------------------------------------------
(* Claims about the vector search *)

\* C19: whatever limit the caller asks for, the store is queried with
\* min(requested limit, vector_search_limit), and the answer holds at most
\* that many and so at most vector_search_limit results.
C19_LimitClamped ==
    sres.made =>
        /\ sres.limit = IF sres.requested <= vector_search_limit
                        THEN sres.requested ELSE vector_search_limit
        /\ Len(sres.results) <= vector_search_limit
        /\ sres.count <= vector_search_limit
        /\ ~sres.raised => Len(sres.results) <= sres.limit

\* A search asked for more than the cap over a store that has as many
\* matching rows as the cap, and got exactly the cap.
C19_Witness ==
    /\ sres.made
    /\ ~sres.raised
    /\ sres.requested > vector_search_limit
    /\ sres.offset = 0
    /\ sres.count = vector_search_limit

\* C20: the results come in ascending distance to the query, and results at
\* the same distance come in the order of their file ids.
C20_TiesOrderedByFileId ==
    (sres.made /\ ~sres.raised) =>
        \A i, j \in 1..Len(sres.results) :
            i < j =>
                LET di == Distance(store[sres.results[i]], sres.embedding)
                    dj == Distance(store[sres.results[j]], sres.embedding)
                IN  \/ di < dj
                    \/ /\ di = dj
                       /\ IdRank(sres.results[i]) < IdRank(sres.results[j])

-----------------------------------------------------------------------------
(* Claims about the similarity stage of the grouping *)

\* cosine(a, b) >= pct / 100, for vectors with a non-negative dot product
CosineAtLeast(a, b, pct) ==
    LET dot == a[1] * b[1] + a[2] * b[2]
        na  == a[1] * a[1] + a[2] * a[2]
        nb  == b[1] * b[1] + b[2] * b[2]
    IN  dot >= 0 /\ dot * dot * 10000 >= pct * pct * na * nb

\* The successfully processed files with an embedding that no exact-hash or
\* exact-text group holds.
Remaining(files, gs) ==
    {i \in 1..Len(files) :
        /\ files[i].success
        /\ files[i].text_content # ""
        /\ \A k \in 1..Len(gs) :
              gs[k].reason \in {"Exact hash match", "Exact text content match"}
                  => SlotCount(gs[k], files[i]) = 0}

\* C21: two remaining files whose embeddings have a cosine similarity at or
\* above the configured threshold are in one group with reason
\* 'similar content'.
C21_SimilarFilesGrouped ==
    (gpc = "done" /\ endpoint = "preview") =>
        \A i, j \in Remaining(gfiles, groups) :
            ( /\ i < j
              /\ Len(text_embeddings(gfiles)) > 0
              /\ CosineAtLeast(text_embedding(gfiles[i].text_content),
                               text_embedding(gfiles[j].text_content),
                               MEDIUM_SIMILARITY_THRESHOLD) )
            => \E k \in 1..Len(groups) :
                  /\ groups[k].reason = "similar content"
                  /\ SlotCount(groups[k], gfiles[i]) > 0
                  /\ SlotCount(groups[k], gfiles[j]) > 0

-----------------------------------------------------------------------------
(* Claims about the rate limiter *)

\* C22: is_allowed answers True exactly when fewer than max_requests of the
\* requests it let through before for that key fall within the last
\* window_seconds.
C22_AllowedIffBelowLimit ==
    rcall.made =>
        (rcall.result <=>
            Len(Recent(rcall.before, rcall.now, rcall.window_seconds)) < rcall.max_requests)

\* C23: a call of is_allowed for one key leaves the answer a request for any
\* other key would get, under any limits, as it was.
C23_OtherKeysUntouched ==
    [][clock' = clock =>
          \A other \in RateKeys \ {rcall'.key} :
              \A max_requests \in 1..MaxRequests : \A window_seconds \in 1..MaxWindow :
                  is_allowed(requests', last_cleanup', clock', other,
                             max_requests, window_seconds).result
                  = is_allowed(requests, last_cleanup, clock, other,
                               max_requests, window_seconds).result]_vars

-----------------------------------------------------------------------------
(* Claims about the worker's scheduling *)

\* The sessions a status read shows as processing.
Processing == {s \in SessionIds : StatusOf(sessions, disk, s) = "processing"}

\* C24: at most one session has status processing at any moment, and it is
\* the one the worker holds; the worker takes a session only when it holds
\* none, and then the one queued first of those waiting; queueing adds at
\* the end.  So a session queued earlier enters processing before one queued
\* later.
C24_OneAtATimeInQueueOrder ==
    /\ [](/\ Cardinality(Processing) <= 1
          /\ \A s \in Processing : wk.sid = s /\ wk.pc \notin {"idle", "start"})
    /\ [][/\ wk'.sid # wk.sid /\ wk'.pc # "idle"
             => /\ wk.pc = "idle" /\ Processing = {}
                /\ queue # <<>> /\ wk'.sid = Head(queue) /\ queue' = Tail(queue)
          /\ queue' # queue
             => \/ queue # <<>> /\ queue' = Tail(queue)
                \/ \E s \in SessionIds : queue' = Append(queue, s)]_vars

\* Session 2 was queued before session 1 and is being processed while
\* session 1 waits in the queue.
C24_Witness ==
    /\ wk.sid = 2
    /\ Processing = {2}
    /\ queue = <<1>>

\* C25: while the worker is running, every queued session that is not
\* deleted reaches status completed or failed, and every process_session
\* call returns.
C25_QueuedSessionsFinish ==
    /\ \A s \in SessionIds :
          (\E i \in 1..Len(queue) : queue[i] = s)
              ~> (StatusOf(sessions, disk, s) \in {"completed", "failed", "not_found"})
    /\ (wk.pc = "start") ~> (wk.pc = "returned")

\* A queued session has been processed to the end and process_session is
\* about to return.
C25_Witness ==
    /\ wk.pc = "returned"
    /\ wk.grouped
    /\ StatusOf(sessions, disk, wk.sid) = "completed"

-----------------------------------------------------------------------------
(* Claims about concurrent writers of the embedding caches *)

\* C26: a caller that missed on a text and computed it receives a vector for
\* it without an error, and after its write the cache holds for that text
\* the vector this caller computed, also when another caller that missed on
\* the same text has written in between (last write wins).
C26_LastWriteWins ==
    (mcall.op = "batch_embed_text" /\ ~mcall.raised) =>
        /\ Len(mcall.embeddings) = Len(mcall.contents)
        /\ \A i \in 1..Len(mcall.contents) :
              /\ mcall.embeddings[i] # NoVec
              /\ (\E k \in 1..Len(mcall.generated) : mcall.generated[k] = mcall.contents[i])
                    => /\ InCache(mcache, compute_hash(mcall.contents[i]))
                       /\ CacheEntry(mcache, compute_hash(mcall.contents[i]))
                              = mcall.embeddings[i]

-----------------------------------------------------------------------------
(* Claims about the stored progress *)

\* The stored progress of a session record agrees with its counters.
ProgressConsistent(session) ==
    session.total_files > 0 =>
        session.progress = (session.processed_files * 100) \div session.total_files

\* C27: in every persisted state of a processing run, after each per-file
\* update and at completion, the stored progress is processed_files /
\* total_files * 100 rounded down; and processed_files never decreases
\* within a run.
C27_ProgressMatchesCounters ==
    /\ [](\A s \in SessionIds :
            (disk[s].results # <<>>
             /\ disk[s].results[1].status \in {"processing", "completed"})
                => ProgressConsistent(disk[s].results[1]))
    /\ [][\A s \in SessionIds :
            (/\ disk[s].results # <<>> /\ disk'[s].results # <<>>
             /\ disk[s].results[1].status = "processing")
                => disk'[s].results[1].processed_files
                       >= disk[s].results[1].processed_files]_vars

\* C28: every result of a search is at a distance from the query no greater
\* than the distance_threshold the search was called with.
C28_ResultsWithinThreshold ==
    (sres.made /\ ~sres.raised) =>
        \A i \in 1..Len(sres.results) :
            Distance(store[sres.results[i]], sres.embedding) <= sres.distance_threshold

\* The hashes for which a get-or-generate call has returned a newly
\* generated vector: their caching task is waiting or has run.
GeneratedBefore ==
    {h \in Hashes : acache[h] # NoVec \/ \E k \in 1..Len(atasks) : atasks[k][1] = h}

\* C29: a get-or-generate call that contains a hash for which an earlier
\* call has returned a newly generated vector is served from the cache for
\* that item, and does not hand the item's text to the generator.
C29_GeneratedOnce ==
    [][(acall' # acall /\ Len(atasks') >= Len(atasks)) =>
          \A i \in 1..Len(acall'.items) :
              acall'.items[i].sha256 \in GeneratedBefore
                  => /\ \A k \in 1..Len(acall'.texts_to_generate) :
                           acall'.texts_to_generate[k] # acall'.items[i].text
                     /\ ~acall'.raised => acall'.cache_hits[i]]_vars

-----------------------------------------------------------------------------
(* Claims about deleting a session that is being processed *)

\* The keyword arguments of the worker's update_session_progress calls.
WorkerKwargs ==
    {[status |-> "processing", progress |-> 0],
     [progress |-> 50, processed_files |-> 1],
     [status |-> "failed", error_message |-> "exception"],
     [status |-> "completed", progress |-> 100, processed_files |-> 1, failed_files |-> 0,
      duplicate_groups |-> "groups", processing_stats |-> <<1, 0>>]}

\* A session that was created and has been cleaned up: no in-memory record,
\* no temp directory, no results file.
Gone(ss, dk, s) == s \notin DOMAIN ss /\ dk[s] = NoDir

\* C30: a session that is gone stays gone under every step, the worker's
\* progress, completion and failure updates of a run on it included; and
\* update_session_progress for an unknown session id changes no state.
C30_DeletedStaysDeleted ==
    /\ [](\A s \in SessionIds \ DOMAIN sessions : \A kwargs \in WorkerKwargs :
              update_session_progress(sessions, disk, s, kwargs) = <<sessions, disk>>)
    /\ [][\A s \in created :
              Gone(sessions, disk, s) => Gone(sessions', disk', s)]_vars

\* The owner deleted the session the worker was processing, and a later
\* update of that run found the session unknown.
C30_Witness ==
    /\ wk.ignored
    /\ wk.sid \in deleted
    /\ Gone(sessions, disk, wk.sid)

====
